---- MODULE Spec2Model ----
(***************************************************************************)
(* ConcurrentHashMap<std::string, int> of Source.cpp: a two-level map       *)
(* symbol -> (price -> Order) guarded by one std::shared_mutex, with the    *)
(* lot size of each Order held in a std::atomic<int>.                       *)
(*                                                                         *)
(* Every public operation is modelled statement by statement, one action    *)
(* per statement, each thread carrying its own program counter, so that     *)
(* the interleavings the lock allows (and only those) are explored.         *)
(***************************************************************************)
EXTENDS Integers, FiniteSets, Sequences, TLC

\* ---------------------------------------------------------------- bounds
NumThreads == 2
MaxCalls == 3

\* ------------------------------------------------------- program constants
\* V = int (main instantiates ConcurrentHashMap<std::string, int>): 32 bits.
MaxInt == 2147483647
MinInt == (-MaxInt) - 1

NoThread == 0

\* const int numThreads = 10;   (testConcurrentAccess)
numThreads == 10
Threads == 1..NumThreads

Symbols == {"TEST", "HDFCBANK"}
Prices == {2, 3}
Quantities == {MinInt, 2, MaxInt}

VARIABLES
    map_,      \* symbol -> (price -> [lotSize, price]); DOMAIN = symbols present
    mutex_,    \* [writer: thread holding it exclusively, readers: shared holders]
    pc,        \* per thread: the statement it is about to execute
    arg,       \* per thread: the arguments of the call in progress
    out,       \* per thread: what display has written so far (symbol -> {<<price, lotSize>>})
    cur,       \* per thread: the symbol display's outer loop is at
    pre,       \* per thread: map_ as it was when the thread acquired the lock
    calls,     \* number of calls issued so far
    seqMap,    \* the calls applied one at a time, in the order of lock acquisition
    hist,      \* per (symbol, price): the completed inserts since the symbol's last removal
    erased,    \* symbol -> the cells it held when a remove erased it, until its next insert returns
    race,      \* the two calls started together by RaceInit and the book they started on
    test       \* test(): the statement it is at, the threads still to run, an assertion failed

vars == <<map_, mutex_, pc, arg, out, cur, pre, calls, seqMap, hist, erased, race, test>>

\* ------------------------------------------------------------- helpers
EmptyMap == [x \in {} |-> x]

Put(f, k, v) == [x \in DOMAIN f \cup {k} |-> IF x = k THEN v ELSE f[x]]

Without(f, k) == [x \in DOMAIN f \ {k} |-> f[x]]

\* Two's-complement addition of two 32-bit values (std::atomic<int>::fetch_add
\* is defined to wrap), computed without leaving the 32-bit range.
Carry(a, b) ==
    IF a >= 0 /\ b >= 0 /\ a > MaxInt - b THEN 1
    ELSE IF a < 0 /\ b < 0 /\ a < MinInt - b THEN -1
    ELSE 0

WrapAdd(a, b) ==
    CASE Carry(a, b) = 1  -> ((a - MaxInt) - 1) + ((b - MaxInt) - 1)
      [] Carry(a, b) = -1 -> ((a + MaxInt) + 1) + ((b + MaxInt) + 1)
      [] OTHER            -> a + b

\* Order() : lotSize(0), price(0)
DefaultOrder == [lotSize |-> 0, price |-> 0]

\* Order(V lotSize, int price)
MakeOrder(q, p) == [lotSize |-> q, price |-> p]

\* Order& operator=(Order&& other): price, then lotSize.store(other.lotSize.load())
MoveAssignDropsLot(this, other) == [this EXCEPT !.price = other.price]

MoveAssignDropsPrice(this, other) == [this EXCEPT !.lotSize = other.lotSize]

MoveAssign(this, other) == [lotSize |-> other.lotSize, price |-> other.price]

\* it->second.lotSize.fetch_add(order.lotSize.load(), relaxed): the stored value
FetchAddLost(old, delta) == delta

\* an addition that clamps at the ends of the range instead of wrapping
FetchAddSaturates(old, delta) ==
    CASE Carry(old, delta) = 1  -> MaxInt
      [] Carry(old, delta) = -1 -> MinInt
      [] OTHER                  -> old + delta

FetchAdd(old, delta) == WrapAdd(old, delta)

\* map_.erase(symbol)
EraseAll(m, s) == EmptyMap

\* map_.erase(map_.find(symbol)) in place of map_.erase(symbol)
EraseAbsentClears(m, s) == IF s \in DOMAIN m THEN Without(m, s) ELSE EmptyMap

\* only the symbol's cells go, the key stays
EraseCellsOnly(m, s) == IF s \in DOMAIN m THEN [m EXCEPT ![s] = EmptyMap] ELSE m

Erase(m, s) == IF s \in DOMAIN m THEN Without(m, s) ELSE m

\* map_[symbol]: the map after the lookup (an absent key gets an empty inner map)
IndexResets(m, s) == Put(m, s, EmptyMap)

Index(m, s) == IF s \in DOMAIN m THEN m ELSE Put(m, s, EmptyMap)

\* orders.find(order.price) != orders.end()
FoundNever(orders, p) == FALSE

Found(orders, p) == p \in DOMAIN orders

\* orders[order.price] on an absent key: a default-constructed cell under the key
NewCellClears(orders, p) == Put(EmptyMap, p, DefaultOrder)

NewCell(orders, p) == Put(orders, p, DefaultOrder)

\* std::unique_lock<std::shared_mutex> lock(mutex_) can be acquired
CanLockIgnoresReaders(m) == m.writer = NoThread

CanLock(m) == m.writer = NoThread /\ m.readers = {}

\* std::shared_lock<std::shared_mutex> lock(mutex_) can be acquired
CanLockSharedAlways(m) == TRUE

CanLockShared(m) == m.writer = NoThread

\* the shared_lock is never released
UnlockSharedLeaks(m, t) == m

\* ~unique_lock() at the closing brace of insert and remove
Unlock(m) == [m EXCEPT !.writer = NoThread]

\* ~shared_lock() at the closing brace of display
UnlockShared(m, t) == [m EXCEPT !.readers = @ \ {t}]

NoArg == [op |-> "none"]
NoOut == EmptyMap
NoCur == ""
NoRace == [op |-> "none"]
NoTest == [pc |-> "idle", todo |-> {}, failed |-> FALSE]

\* The book holds a cell for price p under symbol s.
HasCell(m, s, p) == s \in DOMAIN m /\ p \in DOMAIN m[s]

\* What the book holds, as symbol -> price -> quantity (lotSize.load() of each cell).
Contents(m) == [s \in DOMAIN m |-> [p \in DOMAIN m[s] |-> m[s][p].lotSize]]

\* What a finished display has written, as symbol -> price -> quantity.
Shown(o) == [s \in DOMAIN o |-> [p \in {e[1] : e \in o[s]} |->
                 (CHOOSE e \in o[s] : e[1] = p)[2]]]

\* insert and remove as single steps on a sequential symbol -> price -> quantity map.
SeqInsert(m, s, q, p) ==
    IF s \notin DOMAIN m THEN Put(m, s, Put(EmptyMap, p, q))
    ELSE IF p \notin DOMAIN m[s] THEN [m EXCEPT ![s] = Put(@, p, q)]
    ELSE [m EXCEPT ![s][p] = WrapAdd(@, q)]

SeqRemove(m, s) == IF s \in DOMAIN m THEN Without(m, s) ELSE m

\* The exact (unbounded) sum of the inserted quantities, kept in two limbs:
\* the sum is hi * 2^32 + lo with lo in the 32-bit range; n counts the inserts,
\* conc tells whether two of them were in flight at the same time, and bag
\* holds the inserted quantities themselves (quantity -> number of inserts).
NoHist == [n |-> 0, hi |-> 0, lo |-> 0, conc |-> FALSE, bag |-> EmptyMap]

ExactAdd(h, q, c) ==
    [n |-> h.n + 1, hi |-> h.hi + Carry(h.lo, q), lo |-> WrapAdd(h.lo, q),
     conc |-> h.conc \/ c,
     bag |-> Put(h.bag, q, IF q \in DOMAIN h.bag THEN h.bag[q] + 1 ELSE 1)]

InInsert == {"ins_lock", "ins_index", "ins_find", "ins_add", "ins_new", "ins_move", "ins_unlock"}
InsertHolds == InInsert \ {"ins_lock"}
RemoveHolds == {"rm_erase", "rm_unlock"}
DisplayHolds == {"dsp_outer", "dsp_inner", "dsp_unlock"}

\* ---------------------------------------------------------------- Init
\* ConcurrentHashMap<std::string, int> concurrentMap;  (empty map, free mutex)
Init ==
    /\ map_ = EmptyMap
    /\ mutex_ = [writer |-> NoThread, readers |-> {}]
    /\ pc = [t \in Threads |-> "idle"]
    /\ arg = [t \in Threads |-> NoArg]
    /\ out = [t \in Threads |-> NoOut]
    /\ cur = [t \in Threads |-> NoCur]
    /\ pre = [t \in Threads |-> EmptyMap]
    /\ calls = 0
    /\ seqMap = EmptyMap
    /\ hist = [s \in Symbols |-> [p \in Prices |-> NoHist]]
    /\ erased = EmptyMap
    /\ race = NoRace
    /\ test = NoTest

\* -------------------------------------------------------------- insert
\* A thread calls insert(symbol, Order(lotSize, price)).
InsertCall(t, s, q, p) ==
    /\ pc[t] = "idle"
    /\ calls < MaxCalls
    /\ calls' = calls + 1
    /\ pc' = [pc EXCEPT ![t] = "ins_lock"]
    /\ arg' = [u \in Threads |->
                 IF u = t
                 THEN [op |-> "insert", symbol |-> s, order |-> MakeOrder(q, p),
                       conc |-> \E v \in Threads \ {t} :
                                   /\ pc[v] \in InInsert
                                   /\ arg[v].symbol = s
                                   /\ arg[v].order.price = p]
                 ELSE IF /\ pc[u] \in InInsert
                         /\ arg[u].symbol = s
                         /\ arg[u].order.price = p
                      THEN [arg[u] EXCEPT !.conc = TRUE]
                      ELSE arg[u]]
    /\ UNCHANGED <<map_, mutex_, out, cur, pre, seqMap, hist, erased, race, test>>

\* std::unique_lock<std::shared_mutex> lock(mutex_);
InsertLock(t) ==
    /\ pc[t] = "ins_lock"
    /\ CanLock(mutex_)
    /\ mutex_' = [mutex_ EXCEPT !.writer = t]
    /\ pre' = [pre EXCEPT ![t] = map_]
    /\ seqMap' = SeqInsert(seqMap, arg[t].symbol, arg[t].order.lotSize, arg[t].order.price)
    /\ pc' = [pc EXCEPT ![t] = "ins_index"]
    /\ UNCHANGED <<map_, arg, out, cur, calls, hist, erased, race, test>>

\* auto& orders = map_[symbol];   (creates an empty inner map when absent)
InsertIndex(t) ==
    /\ pc[t] = "ins_index"
    /\ map_' = Index(map_, arg[t].symbol)
    /\ pc' = [pc EXCEPT ![t] = "ins_find"]
    /\ UNCHANGED <<mutex_, arg, out, cur, pre, calls, seqMap, hist, erased, race, test>>

\* auto it = orders.find(order.price); if (it != orders.end())
InsertFind(t) ==
    /\ pc[t] = "ins_find"
    /\ pc' = [pc EXCEPT ![t] =
                 IF Found(map_[arg[t].symbol], arg[t].order.price)
                 THEN "ins_add" ELSE "ins_new"]
    /\ UNCHANGED <<map_, mutex_, arg, out, cur, pre, calls, seqMap, hist, erased, race, test>>

\* it->second.lotSize.fetch_add(order.lotSize.load(), std::memory_order_relaxed);
InsertAdd(t) ==
    /\ pc[t] = "ins_add"
    /\ map_' = [map_ EXCEPT ![arg[t].symbol][arg[t].order.price].lotSize =
                   FetchAdd(@, arg[t].order.lotSize)]
    /\ pc' = [pc EXCEPT ![t] = "ins_unlock"]
    /\ UNCHANGED <<mutex_, arg, out, cur, pre, calls, seqMap, hist, erased, race, test>>

\* orders[order.price]   (default-constructs the cell under the key)
InsertNew(t) ==
    /\ pc[t] = "ins_new"
    /\ map_' = [map_ EXCEPT ![arg[t].symbol] = NewCell(@, arg[t].order.price)]
    /\ pc' = [pc EXCEPT ![t] = "ins_move"]
    /\ UNCHANGED <<mutex_, arg, out, cur, pre, calls, seqMap, hist, erased, race, test>>

\* ... = std::move(order);   (move assignment into the new cell)
InsertMove(t) ==
    /\ pc[t] = "ins_move"
    /\ map_' = [map_ EXCEPT ![arg[t].symbol][arg[t].order.price] =
                   MoveAssign(@, arg[t].order)]
    /\ pc' = [pc EXCEPT ![t] = "ins_unlock"]
    /\ UNCHANGED <<mutex_, arg, out, cur, pre, calls, seqMap, hist, erased, race, test>>

\* } of insert: the unique_lock is released and the call returns.
InsertUnlock(t) ==
    /\ pc[t] = "ins_unlock"
    /\ mutex_' = Unlock(mutex_)
    /\ hist' = [hist EXCEPT ![arg[t].symbol][arg[t].order.price] =
                   ExactAdd(@, arg[t].order.lotSize, arg[t].conc)]
    /\ erased' = IF arg[t].symbol \in DOMAIN erased
                 THEN Without(erased, arg[t].symbol) ELSE erased
    /\ pc' = [pc EXCEPT ![t] = "idle"]
    /\ arg' = [arg EXCEPT ![t] = NoArg]
    /\ pre' = [pre EXCEPT ![t] = EmptyMap]
    /\ UNCHANGED <<map_, out, cur, calls, seqMap, race, test>>

\* -------------------------------------------------------------- remove
RemoveCall(t, s) ==
    /\ pc[t] = "idle"
    /\ calls < MaxCalls
    /\ calls' = calls + 1
    /\ pc' = [pc EXCEPT ![t] = "rm_lock"]
    /\ arg' = [arg EXCEPT ![t] = [op |-> "remove", symbol |-> s]]
    /\ UNCHANGED <<map_, mutex_, out, cur, pre, seqMap, hist, erased, race, test>>

\* std::unique_lock<std::shared_mutex> lock(mutex_);
RemoveLock(t) ==
    /\ pc[t] = "rm_lock"
    /\ CanLock(mutex_)
    /\ mutex_' = [mutex_ EXCEPT !.writer = t]
    /\ pre' = [pre EXCEPT ![t] = map_]
    /\ seqMap' = SeqRemove(seqMap, arg[t].symbol)
    /\ pc' = [pc EXCEPT ![t] = "rm_erase"]
    /\ UNCHANGED <<map_, arg, out, cur, calls, hist, erased, race, test>>

\* map_.erase(symbol);
RemoveErase(t) ==
    /\ pc[t] = "rm_erase"
    /\ map_' = Erase(map_, arg[t].symbol)
    /\ pc' = [pc EXCEPT ![t] = "rm_unlock"]
    /\ UNCHANGED <<mutex_, arg, out, cur, pre, calls, seqMap, hist, erased, race, test>>

\* } of remove: the unique_lock is released and the call returns.
RemoveUnlock(t) ==
    /\ pc[t] = "rm_unlock"
    /\ mutex_' = Unlock(mutex_)
    /\ hist' = [hist EXCEPT ![arg[t].symbol] = [p \in Prices |-> NoHist]]
    /\ erased' = IF arg[t].symbol \in DOMAIN pre[t]
                 THEN Put(erased, arg[t].symbol, pre[t][arg[t].symbol]) ELSE erased
    /\ pc' = [pc EXCEPT ![t] = "idle"]
    /\ arg' = [arg EXCEPT ![t] = NoArg]
    /\ pre' = [pre EXCEPT ![t] = EmptyMap]
    /\ UNCHANGED <<map_, out, cur, calls, seqMap, race, test>>

\* ------------------------------------------------------------- display
DisplayCall(t) ==
    /\ pc[t] = "idle"
    /\ calls < MaxCalls
    /\ calls' = calls + 1
    /\ pc' = [pc EXCEPT ![t] = "dsp_lock"]
    /\ arg' = [arg EXCEPT ![t] = [op |-> "display"]]
    /\ UNCHANGED <<map_, mutex_, out, cur, pre, seqMap, hist, erased, race, test>>

\* std::shared_lock<std::shared_mutex> lock(mutex_);
DisplayLock(t) ==
    /\ pc[t] = "dsp_lock"
    /\ CanLockShared(mutex_)
    /\ mutex_' = [mutex_ EXCEPT !.readers = @ \cup {t}]
    /\ pre' = [pre EXCEPT ![t] = map_]
    /\ pc' = [pc EXCEPT ![t] = "dsp_outer"]
    /\ UNCHANGED <<map_, arg, out, cur, calls, seqMap, hist, erased, race, test>>

\* for (const auto& pair : map_) { std::cout << pair.first << ": ";
\* (the iteration order of an unordered_map is unspecified: any unvisited symbol)
DisplaySymbol(t) ==
    /\ pc[t] = "dsp_outer"
    /\ \E s \in DOMAIN map_ \ DOMAIN out[t] :
          /\ out' = [out EXCEPT ![t] = Put(@, s, {})]
          /\ cur' = [cur EXCEPT ![t] = s]
    /\ pc' = [pc EXCEPT ![t] = "dsp_inner"]
    /\ UNCHANGED <<map_, mutex_, arg, pre, calls, seqMap, hist, erased, race, test>>

\* for (const auto& order : pair.second) { ... order.second.lotSize.load() ... order.first
DisplayOrder(t) ==
    /\ pc[t] = "dsp_inner"
    /\ \E p \in DOMAIN map_[cur[t]] \ {e[1] : e \in out[t][cur[t]]} :
          out' = [out EXCEPT ![t][cur[t]] = @ \cup {<<p, map_[cur[t]][p].lotSize>>}]
    /\ UNCHANGED <<map_, mutex_, pc, arg, cur, pre, calls, seqMap, hist, erased, race, test>>

\* } std::cout << std::endl;   (the inner loop is over)
DisplayEndl(t) ==
    /\ pc[t] = "dsp_inner"
    /\ DOMAIN map_[cur[t]] \subseteq {e[1] : e \in out[t][cur[t]]}
    /\ pc' = [pc EXCEPT ![t] = "dsp_outer"]
    /\ cur' = [cur EXCEPT ![t] = NoCur]
    /\ UNCHANGED <<map_, mutex_, arg, out, pre, calls, seqMap, hist, erased, race, test>>

\* the outer loop is over
DisplayDone(t) ==
    /\ pc[t] = "dsp_outer"
    /\ DOMAIN map_ \subseteq DOMAIN out[t]
    /\ pc' = [pc EXCEPT ![t] = "dsp_unlock"]
    /\ UNCHANGED <<map_, mutex_, arg, out, cur, pre, calls, seqMap, hist, erased, race, test>>

\* } of display: the shared_lock is released and the call returns.
DisplayUnlock(t) ==
    /\ pc[t] = "dsp_unlock"
    /\ mutex_' = UnlockShared(mutex_, t)
    /\ pc' = [pc EXCEPT ![t] = "idle"]
    /\ arg' = [arg EXCEPT ![t] = NoArg]
    /\ out' = [out EXCEPT ![t] = NoOut]
    /\ pre' = [pre EXCEPT ![t] = EmptyMap]
    /\ UNCHANGED <<map_, cur, calls, seqMap, hist, erased, race, test>>

\* ---------------------------------------------------------------- Next
Next ==
    \/ \E t \in Threads, s \in Symbols, q \in Quantities, p \in Prices : InsertCall(t, s, q, p)
    \/ \E t \in Threads : InsertLock(t)
    \/ \E t \in Threads : InsertIndex(t)
    \/ \E t \in Threads : InsertFind(t)
    \/ \E t \in Threads : InsertAdd(t)
    \/ \E t \in Threads : InsertNew(t)
    \/ \E t \in Threads : InsertMove(t)
    \/ \E t \in Threads : InsertUnlock(t)
    \/ \E t \in Threads, s \in Symbols : RemoveCall(t, s)
    \/ \E t \in Threads : RemoveLock(t)
    \/ \E t \in Threads : RemoveErase(t)
    \/ \E t \in Threads : RemoveUnlock(t)
    \/ \E t \in Threads : DisplayCall(t)
    \/ \E t \in Threads : DisplayLock(t)
    \/ \E t \in Threads : DisplaySymbol(t)
    \/ \E t \in Threads : DisplayOrder(t)
    \/ \E t \in Threads : DisplayEndl(t)
    \/ \E t \in Threads : DisplayDone(t)
    \/ \E t \in Threads : DisplayUnlock(t)

Spec == Init /\ [][Next]_vars

\* Every statement of a call in progress: the lock acquisition and the body.
Progress(t) ==
    \/ InsertLock(t) \/ InsertIndex(t) \/ InsertFind(t) \/ InsertAdd(t) \/ InsertNew(t)
    \/ InsertMove(t) \/ InsertUnlock(t)
    \/ RemoveLock(t) \/ RemoveErase(t) \/ RemoveUnlock(t)
    \/ DisplayLock(t) \/ DisplaySymbol(t) \/ DisplayOrder(t) \/ DisplayEndl(t)
    \/ DisplayDone(t) \/ DisplayUnlock(t)

\* Fair scheduling: a thread whose next statement stays executable runs it.
\* Callers are free never to issue a further call.
FairSpec == Spec /\ \A t \in Threads : WF_vars(Progress(t))

\* ---------------------------------------------------------------- race
\* remove(s) and insert(s, Order(q, p)) issued together on a book where s
\* holds cells: both calls stand before their lock statement.

\* The inner maps an earlier run of inserts can have left: price -> Order.
Cells(ps) == {[p \in ps |-> MakeOrder(f[p], p)] : f \in [ps -> Quantities]}

\* The books in which s holds at least one cell; another symbol is absent or
\* holds cells of its own.
Books(s) ==
    {[x \in {s} \cup os |-> IF x = s THEN c ELSE d] :
        os \in SUBSET (Symbols \ {s}),
        c \in UNION {Cells(ps) : ps \in (SUBSET Prices) \ {{}}},
        d \in Cells({2})}

RaceInit ==
    \E s \in Symbols, q \in Quantities, p \in Prices, ti \in Threads, tr \in Threads :
        \E book \in Books(s) :
            /\ ti # tr
            /\ race = [op |-> "race", symbol |-> s, order |-> MakeOrder(q, p),
                       book |-> book, ins |-> ti, rem |-> tr]
            /\ map_ = book
            /\ mutex_ = [writer |-> NoThread, readers |-> {}]
            /\ pc = [t \in Threads |->
                       IF t = ti THEN "ins_lock" ELSE IF t = tr THEN "rm_lock" ELSE "idle"]
            /\ arg = [t \in Threads |->
                       IF t = ti THEN [op |-> "insert", symbol |-> s,
                                       order |-> MakeOrder(q, p), conc |-> FALSE]
                       ELSE IF t = tr THEN [op |-> "remove", symbol |-> s]
                       ELSE NoArg]
            /\ out = [t \in Threads |-> NoOut]
            /\ cur = [t \in Threads |-> NoCur]
            /\ pre = [t \in Threads |-> EmptyMap]
            /\ calls = MaxCalls
            /\ seqMap = Contents(book)
            /\ hist = [x \in Symbols |-> [y \in Prices |->
                         IF HasCell(book, x, y)
                         THEN ExactAdd(NoHist, book[x][y].lotSize, FALSE)
                         ELSE NoHist]]
            /\ erased = EmptyMap
            /\ test = NoTest

RaceNext ==
    \/ \E t \in Threads : InsertLock(t)
    \/ \E t \in Threads : InsertIndex(t)
    \/ \E t \in Threads : InsertFind(t)
    \/ \E t \in Threads : InsertAdd(t)
    \/ \E t \in Threads : InsertNew(t)
    \/ \E t \in Threads : InsertMove(t)
    \/ \E t \in Threads : InsertUnlock(t)
    \/ \E t \in Threads : RemoveLock(t)
    \/ \E t \in Threads : RemoveErase(t)
    \/ \E t \in Threads : RemoveUnlock(t)

RaceSpec == RaceInit /\ [][RaceNext]_vars

\* ---------------------------------------------------------------- test
\* test() and the public calls around it, run by one caller: every call is
\* taken as a whole (insert and remove hold the lock exclusively from their
\* first statement to their last). The threads of testConcurrentAccess run
\* their inserts in any order. seqMap, hist and erased are not kept here.

\* insert(symbol, order) from call to return
InsertAll(m, s, order) ==
    LET m1 == Index(m, s)
        orders == m1[s]
    IN  IF Found(orders, order.price)
        THEN [m1 EXCEPT ![s][order.price].lotSize = FetchAdd(@, order.lotSize)]
        ELSE [m1 EXCEPT ![s] =
                 [NewCell(orders, order.price) EXCEPT ![order.price] = MoveAssign(@, order)]]

\* remove(symbol) from call to return
RemoveAll(m, s) == Erase(m, s)

\* orders.size()
Size(orders) == Cardinality(DOMAIN orders)

\* assert(e): the statement after it is reached when e holds, abort() otherwise
Asserted(e, next) ==
    test' = [test EXCEPT !.pc = IF e THEN next ELSE "aborted", !.failed = ~e]

TestFrame == UNCHANGED <<mutex_, pc, arg, out, cur, pre, seqMap, hist, erased, race>>

TestInit ==
    /\ map_ = EmptyMap
    /\ mutex_ = [writer |-> NoThread, readers |-> {}]
    /\ pc = [t \in Threads |-> "idle"]
    /\ arg = [t \in Threads |-> NoArg]
    /\ out = [t \in Threads |-> NoOut]
    /\ cur = [t \in Threads |-> NoCur]
    /\ pre = [t \in Threads |-> EmptyMap]
    /\ calls = 0
    /\ seqMap = EmptyMap
    /\ hist = [s \in Symbols |-> [p \in Prices |-> NoHist]]
    /\ erased = EmptyMap
    /\ race = NoRace
    /\ test = NoTest

\* concurrentMap.insert(symbol, Order(q, p)) by the caller
PublicInsert(s, q, p) ==
    /\ test.pc = "idle"
    /\ calls < MaxCalls
    /\ calls' = calls + 1
    /\ map_' = InsertAll(map_, s, MakeOrder(q, p))
    /\ UNCHANGED test
    /\ TestFrame

\* concurrentMap.remove(symbol) by the caller
PublicRemove(s) ==
    /\ test.pc = "idle"
    /\ calls < MaxCalls
    /\ calls' = calls + 1
    /\ map_' = RemoveAll(map_, s)
    /\ UNCHANGED test
    /\ TestFrame

\* concurrentMap.test()
TestCall ==
    /\ test.pc = "idle"
    /\ calls < MaxCalls
    /\ calls' = calls + 1
    /\ test' = [test EXCEPT !.pc = "insert1"]
    /\ UNCHANGED map_
    /\ TestFrame

\* testInsert: insert("TEST", Order(10, 2)); size() == 1; at(2).lotSize == 10
TestInsert1 ==
    /\ test.pc = "insert1"
    /\ map_' = InsertAll(map_, "TEST", MakeOrder(10, 2))
    /\ LET orders == map_'["TEST"]
       IN  Asserted(Size(orders) = 1 /\ orders[2].lotSize = 10, "insert2")
    /\ UNCHANGED calls
    /\ TestFrame

\* testInsert: insert("TEST", Order(20, 2)); size() == 1; at(2).lotSize == 30
TestInsert2 ==
    /\ test.pc = "insert2"
    /\ map_' = InsertAll(map_, "TEST", MakeOrder(20, 2))
    /\ LET orders == map_'["TEST"]
       IN  Asserted(Size(orders) = 1 /\ orders[2].lotSize = 30, "insert3")
    /\ UNCHANGED calls
    /\ TestFrame

\* testInsert: insert("TEST", Order(5, 3)); size() == 2; 30 at price 2, 5 at price 3
TestInsert3 ==
    /\ test.pc = "insert3"
    /\ map_' = InsertAll(map_, "TEST", MakeOrder(5, 3))
    /\ LET orders == map_'["TEST"]
       IN  Asserted(/\ Size(orders) = 2
                    /\ orders[2].lotSize = 30
                    /\ orders[3].lotSize = 5, "remove")
    /\ UNCHANGED calls
    /\ TestFrame

\* testRemove: insert("TEST", Order(10, 2)); remove("TEST"); find("TEST") == end()
TestRemove ==
    /\ test.pc = "remove"
    /\ map_' = RemoveAll(InsertAll(map_, "TEST", MakeOrder(10, 2)), "TEST")
    /\ Asserted("TEST" \notin DOMAIN map_', "display")
    /\ UNCHANGED calls
    /\ TestFrame

\* testDisplay: insert("TEST", Order(10, 2)); insert("TEST", Order(15, 3)); display()
TestDisplay ==
    /\ test.pc = "display"
    /\ map_' = InsertAll(InsertAll(map_, "TEST", MakeOrder(10, 2)), "TEST", MakeOrder(15, 3))
    /\ test' = [test EXCEPT !.pc = "spawn"]
    /\ UNCHANGED calls
    /\ TestFrame

\* testConcurrentAccess: for (i < numThreads) threads.push_back(std::thread(...))
TestSpawn ==
    /\ test.pc = "spawn"
    /\ test' = [test EXCEPT !.pc = "join", !.todo = 0..(numThreads - 1)]
    /\ UNCHANGED <<map_, calls>>
    /\ TestFrame

\* thread i: insert("CONCURRENCY_TEST", Order(i + 1, 2))
TestThread(i) ==
    /\ test.pc = "join"
    /\ i \in test.todo
    /\ map_' = InsertAll(map_, "CONCURRENCY_TEST", MakeOrder(i + 1, 2))
    /\ test' = [test EXCEPT !.todo = @ \ {i}]
    /\ UNCHANGED calls
    /\ TestFrame

\* testConcurrentAccess: every thread joined; size() == 1;
\* at(2).lotSize == numThreads * (numThreads + 1) / 2; test() returns
TestJoin ==
    /\ test.pc = "join"
    /\ test.todo = {}
    /\ LET orders == map_["CONCURRENCY_TEST"]
       IN  Asserted(/\ Size(orders) = 1
                    /\ orders[2].lotSize = (numThreads * (numThreads + 1)) \div 2, "idle")
    /\ UNCHANGED <<map_, calls>>
    /\ TestFrame

TestNext ==
    \/ \E s \in Symbols, q \in Quantities, p \in Prices : PublicInsert(s, q, p)
    \/ \E s \in Symbols : PublicRemove(s)
    \/ TestCall
    \/ TestInsert1
    \/ TestInsert2
    \/ TestInsert3
    \/ TestRemove
    \/ TestDisplay
    \/ TestSpawn
    \/ \E i \in 0..(numThreads - 1) : TestThread(i)
    \/ TestJoin

TestSpec == TestInit /\ [][TestNext]_vars

\* ======================================================== verification
Holders == InsertHolds \cup RemoveHolds

\* The insert calls on (s, p) that have been issued and have not returned.
InsertsInFlight(s, p) ==
    {t \in Threads : pc[t] \in InInsert /\ arg[t].symbol = s /\ arg[t].order.price = p}

\* The remove calls on s that have been issued and have not returned.
RemovesInFlight(s) ==
    {t \in Threads : pc[t] \in {"rm_lock"} \cup RemoveHolds /\ arg[t].symbol = s}


\* The symbol's entry in the outer map, absent or present with its cells.
Entry(m, s) == IF s \in DOMAIN m THEN <<"present", m[s]>> ELSE <<"absent">>

\* ------------------------------------------------------------------ C1
\* C1 as stated: once concurrent inserts at one (symbol, price) have all
\* returned, and no remove of the symbol is in flight, the pair has one cell
\* and its quantity is the integer sum q_1 + ... + q_N of what was inserted
\* (hi = 0: the exact sum is the 32-bit value lo itself).
C1_ExactSumOfConcurrentInserts ==
    \A s \in Symbols, p \in Prices :
        (/\ hist[s][p].conc
         /\ InsertsInFlight(s, p) = {}
         /\ RemovesInFlight(s) = {})
        => /\ HasCell(map_, s, p)
           /\ hist[s][p].hi = 0
           /\ map_[s][p].lotSize = hist[s][p].lo

\* C1 as amended: no update is lost. Once concurrent inserts at one
\* (symbol, price) have all returned, and no remove of the symbol is in
\* flight, the pair has one cell and its quantity is the sum of the inserted
\* quantities reduced modulo 2^32 into the range of int, under every
\* interleaving (the integer sum itself whenever that sum fits an int).
C1_NoLostUpdate ==
    \A s \in Symbols, p \in Prices :
        (/\ hist[s][p].conc
         /\ InsertsInFlight(s, p) = {}
         /\ RemovesInFlight(s) = {})
        => /\ HasCell(map_, s, p)
           /\ map_[s][p].lotSize = hist[s][p].lo

\* Two inserts at one pair were in flight together, both have returned, and
\* their integer sum does not fit an int.
C1_Witness ==
    \E s \in Symbols, p \in Prices :
        /\ hist[s][p].conc
        /\ hist[s][p].n >= 2
        /\ hist[s][p].hi # 0
        /\ InsertsInFlight(s, p) = {}
        /\ RemovesInFlight(s) = {}
        /\ HasCell(map_, s, p)

\* ------------------------------------------------------------------ C2
\* The cell an insert call leaves behind, seen when the call is about to return:
\* a first insert at the pair leaves exactly the inserted quantity, a later one
\* keeps the symbol's number of cells.
InsertShape(t) ==
    LET s == arg[t].symbol
        p == arg[t].order.price
        q == arg[t].order.lotSize
    IN  /\ HasCell(map_, s, p)
        /\ IF HasCell(pre[t], s, p)
           THEN Cardinality(DOMAIN map_[s]) = Cardinality(DOMAIN pre[t][s])
           ELSE map_[s][p].lotSize = q

\* C2 as stated: with no insert or remove under way, every pair inserted
\* since the symbol's last removal has its cell, no other pair has one, and the
\* cell's quantity is the integer sum of the quantities inserted at the pair.
C2_ExactSumOfInserts ==
    /\ mutex_.writer = NoThread =>
          \A s \in Symbols, p \in Prices :
              /\ HasCell(map_, s, p) <=> hist[s][p].n > 0
              /\ hist[s][p].n > 0 =>
                    /\ hist[s][p].hi = 0
                    /\ map_[s][p].lotSize = hist[s][p].lo
    /\ \A t \in Threads : pc[t] = "ins_unlock" => InsertShape(t)

\* C2 as amended: the same, the quantity being the sum of the inserted
\* quantities reduced modulo 2^32 into the range of int.
C2_SumOfInserts ==
    /\ mutex_.writer = NoThread =>
          \A s \in Symbols, p \in Prices :
              /\ HasCell(map_, s, p) <=> hist[s][p].n > 0
              /\ hist[s][p].n > 0 => map_[s][p].lotSize = hist[s][p].lo
    /\ \A t \in Threads : pc[t] = "ins_unlock" => InsertShape(t)

\* Three inserts at one pair have returned: the cell was created by the first
\* and merged into twice.
C2_Witness ==
    /\ mutex_.writer = NoThread
    /\ \E s \in Symbols, p \in Prices :
          /\ hist[s][p].n >= 3
          /\ HasCell(map_, s, p)
          /\ map_[s][p].lotSize # 0

\* ------------------------------------------------------------------ C3
\* C3: when remove(symbol) is about to return the symbol is absent; a display
\* that completes while the symbol is still erased does not list it; and the
\* first insert after the removal leaves the single cell (p, q).
C3_RemovalClears ==
    /\ \A t \in Threads : pc[t] = "rm_unlock" => arg[t].symbol \notin DOMAIN map_
    /\ mutex_.writer = NoThread => DOMAIN erased \cap DOMAIN map_ = {}
    /\ \A t \in Threads : pc[t] = "dsp_unlock" => DOMAIN out[t] \cap DOMAIN erased = {}
    /\ \A t \in Threads :
          (pc[t] = "ins_unlock" /\ arg[t].symbol \in DOMAIN erased)
          => map_[arg[t].symbol] =
                Put(EmptyMap, arg[t].order.price, MakeOrder(arg[t].order.lotSize, arg[t].order.price))

\* An insert is about to return on a symbol that was erased while it held a
\* cell at the same price.
C3_Witness ==
    \E t \in Threads :
        /\ pc[t] = "ins_unlock"
        /\ arg[t].symbol \in DOMAIN erased
        /\ arg[t].order.price \in DOMAIN erased[arg[t].symbol]
        /\ erased[arg[t].symbol][arg[t].order.price].lotSize # 0

\* ------------------------------------------------------------------ C4
\* C4: whenever no thread holds the lock exclusively, the book holds what the
\* insert and remove calls give when applied one at a time, in the order in
\* which they acquired the lock, to a sequential map; and a display that has
\* finished reading has written that sequential map's contents.
C4_Linearizable ==
    /\ mutex_.writer = NoThread => Contents(map_) = seqMap
    /\ \A t \in Threads : pc[t] = "dsp_unlock" => Shown(out[t]) = seqMap

\* A display has written a non-empty book while another thread's insert or
\* remove waits for the lock.
C4_Witness ==
    \E t, u \in Threads :
        /\ pc[t] = "dsp_unlock"
        /\ Shown(out[t]) # EmptyMap
        /\ pc[u] \in {"ins_lock", "rm_lock"}

\* ------------------------------------------------------------------ C5
\* C5: a thread inside insert or remove (past the lock) excludes every other
\* thread from being inside insert, remove or display.
C5_Exclusion ==
    \A t \in Threads :
        pc[t] \in Holders =>
            \A u \in Threads \ {t} : pc[u] \notin Holders \cup DisplayHolds

\* A thread is inside insert or remove while another thread waits for the lock.
C5_Witness ==
    \E t, u \in Threads :
        /\ pc[t] \in Holders
        /\ pc[u] \in {"ins_lock", "rm_lock", "dsp_lock"}

\* Two threads inside display at the same time (reachable: the lock is shared).
C5_SharedReaders ==
    \E t, u \in Threads : t # u /\ pc[t] \in DisplayHolds /\ pc[u] \in DisplayHolds

\* ------------------------------------------------------------------ C6
\* C6: while a display holds the lock the book is what it was when the lock
\* was acquired; what the display has read so far is part of that book and,
\* once it has finished, all of it; and every insert in flight has either
\* returned or not yet acquired the lock.
C6_Snapshot ==
    \A t \in Threads :
        pc[t] \in DisplayHolds =>
            /\ map_ = pre[t]
            /\ \A s \in DOMAIN out[t] :
                  /\ s \in DOMAIN pre[t]
                  /\ \A e \in out[t][s] :
                        /\ e[1] \in DOMAIN pre[t][s]
                        /\ e[2] = pre[t][s][e[1]].lotSize
            /\ pc[t] = "dsp_unlock" => Shown(out[t]) = Contents(pre[t])
            /\ \A u \in Threads : pc[u] \in InInsert => pc[u] = "ins_lock"

\* A display has read a cell and is still inside its loops while an insert at
\* that cell's (symbol, price) waits for the lock.
C6_Witness ==
    \E t, u \in Threads :
        /\ pc[t] = "dsp_inner"
        /\ pc[u] = "ins_lock"
        /\ arg[u].symbol = cur[t]
        /\ arg[u].order.price \in {e[1] : e \in out[t][cur[t]]}

\* ------------------------------------------------------------------ C7
\* C7: an insert on a present symbol at a new price adds the one cell (p, q)
\* and leaves the symbol's other cells as they were; at an existing price it
\* changes nothing but that cell's quantity.
C7_PriceLevelSeparation ==
    \A t \in Threads :
        (pc[t] = "ins_unlock" /\ arg[t].symbol \in DOMAIN pre[t]) =>
            LET s == arg[t].symbol
                p == arg[t].order.price
                q == arg[t].order.lotSize
            IN  IF p \notin DOMAIN pre[t][s]
                THEN map_[s] = Put(pre[t][s], p, MakeOrder(q, p))
                ELSE /\ DOMAIN map_[s] = DOMAIN pre[t][s]
                     /\ \A r \in DOMAIN map_[s] \ {p} : map_[s][r] = pre[t][s][r]
                     /\ map_[s][p].price = pre[t][s][p].price

\* An insert at a new price of a symbol that already had a cell is about to return.
C7_Witness ==
    \E t \in Threads :
        /\ pc[t] = "ins_unlock"
        /\ arg[t].symbol \in DOMAIN pre[t]
        /\ arg[t].order.price \notin DOMAIN pre[t][arg[t].symbol]
        /\ Cardinality(DOMAIN map_[arg[t].symbol]) = 2

\* ------------------------------------------------------------------ C8
\* C8: from the moment an insert or remove on symbol s holds the lock until it
\* returns, every other symbol is present or absent as before, with the cells
\* it had; and with no insert or remove under way each symbol's cells are
\* those of the inserts on that symbol since its last removal.
C8_NoCrossSymbolInterference ==
    /\ \A t \in Threads :
          pc[t] \in Holders =>
              \A s \in Symbols \ {arg[t].symbol} : Entry(map_, s) = Entry(pre[t], s)
    /\ mutex_.writer = NoThread =>
          \A s \in Symbols :
              Entry(Contents(map_), s) =
                  LET ps == {p \in Prices : hist[s][p].n > 0}
                  IN  IF ps = {} THEN <<"absent">>
                      ELSE <<"present", [p \in ps |-> hist[s][p].lo]>>

\* An insert is about to return while the other symbol holds a cell and a
\* remove of the other symbol is in flight.
C8_Witness ==
    \E t, u \in Threads :
        /\ pc[t] = "ins_unlock"
        /\ pc[u] = "rm_lock"
        /\ arg[u].symbol # arg[t].symbol
        /\ arg[u].symbol \in DOMAIN map_
        /\ map_[arg[u].symbol] # EmptyMap

\* ------------------------------------------------------------------ C9
\* C9: a remove of an absent symbol leaves the whole book as it was, and
\* erasing a symbol twice gives the book that erasing it once gives.
C9_IdempotentRemoval ==
    /\ \A t \in Threads :
          (pc[t] = "rm_unlock" /\ arg[t].symbol \notin DOMAIN pre[t]) => map_ = pre[t]
    /\ \A s \in Symbols : Erase(Erase(map_, s), s) = Erase(map_, s)

\* A remove of an absent symbol is about to return on a non-empty book.
C9_Witness ==
    \E t \in Threads :
        /\ pc[t] = "rm_unlock"
        /\ arg[t].symbol \notin DOMAIN pre[t]
        /\ pre[t] # EmptyMap

\* A second remove of an erased symbol is about to return.
C9_RemovedTwice ==
    \E t \in Threads :
        /\ pc[t] = "rm_unlock"
        /\ arg[t].symbol \in DOMAIN erased

\* ----------------------------------------------------------------- C10
\* The statements left to a thread that is past its lock acquisition.
Step(t) ==
    \/ InsertIndex(t) \/ InsertFind(t) \/ InsertAdd(t) \/ InsertNew(t)
    \/ InsertMove(t) \/ InsertUnlock(t)
    \/ RemoveErase(t) \/ RemoveUnlock(t)
    \/ DisplaySymbol(t) \/ DisplayOrder(t) \/ DisplayEndl(t) \/ DisplayDone(t)
    \/ DisplayUnlock(t)

\* C10: a call that holds the lock always has a next statement to execute
\* (no input and no book state stops it), and when it is about to return its
\* whole effect is in place: insert has merged or created its cell (an absent
\* symbol now holds the single inserted cell), remove has erased the symbol,
\* display has written every cell.
C10_Total ==
    \A t \in Threads :
        /\ pc[t] \in Holders \cup DisplayHolds => ENABLED Step(t)
        /\ pc[t] = "ins_unlock" =>
              /\ Contents(map_) = SeqInsert(Contents(pre[t]), arg[t].symbol,
                                            arg[t].order.lotSize, arg[t].order.price)
              /\ arg[t].symbol \notin DOMAIN pre[t] =>
                    map_[arg[t].symbol] =
                        Put(EmptyMap, arg[t].order.price,
                            MakeOrder(arg[t].order.lotSize, arg[t].order.price))
        /\ pc[t] = "rm_unlock" => Contents(map_) = SeqRemove(Contents(pre[t]), arg[t].symbol)
        /\ pc[t] = "dsp_unlock" => Shown(out[t]) = Contents(map_)

\* An insert of an extreme quantity on an absent symbol of a non-empty book is
\* about to return.
C10_Witness ==
    \E t \in Threads :
        /\ pc[t] = "ins_unlock"
        /\ arg[t].symbol \notin DOMAIN pre[t]
        /\ pre[t] # EmptyMap
        /\ arg[t].order.lotSize \in {MinInt, MaxInt}

\* ----------------------------------------------------------------- C11
\* The integer sum x + k * q in two limbs (hi * 2^32 + lo).
RECURSIVE AddTimes(_, _, _)
AddTimes(x, q, k) ==
    IF k = 0 THEN x
    ELSE AddTimes([hi |-> x.hi + Carry(x.lo, q), lo |-> WrapAdd(x.lo, q)], q, k - 1)

\* The integer sum of the quantities of a bag, in two limbs.
RECURSIVE BagSum(_, _)
BagSum(b, qs) ==
    IF qs = {} THEN [hi |-> 0, lo |-> 0]
    ELSE LET q == CHOOSE x \in qs : TRUE
         IN  AddTimes(BagSum(b, qs \ {q}), q, b[q])

\* The bags of some of the inserts of bag b.
SubBags(b) == {f \in [DOMAIN b -> 0..MaxCalls] : \A q \in DOMAIN b : f[q] <= b[q]}

\* C11 as stated: every quantity a display has read for a cell is the integer
\* sum of the quantities of some of the inserts at the pair that had
\* completed when it was read.
C11_ReadIsIntegerSum ==
    \A t \in Threads :
        pc[t] \in DisplayHolds =>
            \A s \in DOMAIN out[t] : \A e \in out[t][s] :
                \E f \in SubBags(hist[s][e[1]].bag) :
                    BagSum(f, DOMAIN f) = [hi |-> 0, lo |-> e[2]]

\* C11 as amended: every quantity a display has read for a cell is the sum,
\* reduced modulo 2^32 into the range of int, of the quantities of all the
\* inserts at the pair that had completed (at least one, since the symbol's
\* last removal) when it was read: never the value of a cell whose insert
\* is still under way.
C11_ReadIsCompletedSum ==
    \A t \in Threads :
        pc[t] \in DisplayHolds =>
            \A s \in DOMAIN out[t] : \A e \in out[t][s] :
                /\ hist[s][e[1]].n > 0
                /\ e[2] = hist[s][e[1]].lo
                /\ e[2] = BagSum(hist[s][e[1]].bag, DOMAIN hist[s][e[1]].bag).lo

\* A display has finished reading a cell that holds an extreme quantity while
\* a further insert at the pair waits for the lock.
C11_Witness ==
    \E t, u \in Threads :
        /\ pc[t] = "dsp_unlock"
        /\ \E s \in DOMAIN out[t] : \E e \in out[t][s] :
              /\ e[2] \in {MinInt, MaxInt}
              /\ pc[u] = "ins_lock"
              /\ arg[u].symbol = s
              /\ arg[u].order.price = e[1]

\* ----------------------------------------------------------------- C12
\* C12 as stated: an insert at an existing cell never leaves the cell's
\* quantity smaller than it was.
C12_QuantityOnlyIncreases ==
    \A t \in Threads :
        (pc[t] = "ins_unlock"
         /\ HasCell(pre[t], arg[t].symbol, arg[t].order.price)) =>
            map_[arg[t].symbol][arg[t].order.price].lotSize
                >= pre[t][arg[t].symbol][arg[t].order.price].lotSize

\* C12 as amended: from its creation until the removal of its symbol a cell's
\* quantity changes only by the merge of an insert at its pair, and such an
\* insert of q leaves the quantity no smaller than before exactly when q >= 0
\* and the sum fits an int, or q < 0 and the sum wraps around below the
\* least int; an insert of a negative q (insert validates nothing) or one
\* that overflows above the greatest int makes the quantity smaller.
C12_QuantityChangesByMergeOnly ==
    \A t \in Threads :
        /\ (pc[t] = "ins_unlock"
            /\ HasCell(pre[t], arg[t].symbol, arg[t].order.price)) =>
               LET old == pre[t][arg[t].symbol][arg[t].order.price].lotSize
                   new == map_[arg[t].symbol][arg[t].order.price].lotSize
                   q   == arg[t].order.lotSize
               IN  new >= old <=> \/ q >= 0 /\ Carry(old, q) = 0
                                  \/ Carry(old, q) = -1
        /\ pc[t] \in Holders \cup DisplayHolds =>
               \A s \in DOMAIN map_ \cap DOMAIN pre[t] :
                   \A p \in DOMAIN map_[s] \cap DOMAIN pre[t][s] :
                       (map_[s][p].lotSize # pre[t][s][p].lotSize) =>
                           /\ pc[t] \in InsertHolds
                           /\ arg[t].symbol = s
                           /\ arg[t].order.price = p

\* An insert of a negative quantity at a cell that held a positive one is
\* about to return, and the cell now holds less.
C12_Witness ==
    \E t \in Threads :
        /\ pc[t] = "ins_unlock"
        /\ HasCell(pre[t], arg[t].symbol, arg[t].order.price)
        /\ arg[t].order.lotSize < 0
        /\ pre[t][arg[t].symbol][arg[t].order.price].lotSize > 0
        /\ map_[arg[t].symbol][arg[t].order.price].lotSize
               < pre[t][arg[t].symbol][arg[t].order.price].lotSize

\* ----------------------------------------------------------------- C15
\* C15: whenever the lock is not held exclusively, every symbol present in
\* the outer map has at least one cell; a symbol with no cell exists only
\* between insert's map_[symbol] and its new cell, under the exclusive lock.
C15_NoEmptyPlaceholder ==
    /\ mutex_.writer = NoThread => \A s \in DOMAIN map_ : map_[s] # EmptyMap
    /\ \A s \in DOMAIN map_ :
          map_[s] = EmptyMap =>
              \E t \in Threads :
                  /\ mutex_.writer = t
                  /\ pc[t] \in {"ins_find", "ins_new"}
                  /\ arg[t].symbol = s
    /\ \A t \in Threads : pc[t] = "rm_unlock" => arg[t].symbol \notin DOMAIN map_

\* An insert on an absent symbol has created the empty inner map and not yet
\* its cell, while another thread's display waits for the lock.
C15_Witness ==
    \E t, u \in Threads :
        /\ pc[t] = "ins_new"
        /\ map_[arg[t].symbol] = EmptyMap
        /\ map_ # pre[t]
        /\ pc[u] = "dsp_lock"

\* ----------------------------------------------------------------- C16
\* C16 as stated: a merge leaves the integer sum of the held and the inserted
\* quantity, whatever their magnitude (the sum never leaves the range).
C16_MergeIsExact ==
    \A t \in Threads :
        (pc[t] = "ins_unlock"
         /\ HasCell(pre[t], arg[t].symbol, arg[t].order.price)) =>
            LET old == pre[t][arg[t].symbol][arg[t].order.price].lotSize
                q   == arg[t].order.lotSize
            IN  /\ Carry(old, q) = 0
                /\ map_[arg[t].symbol][arg[t].order.price].lotSize = old + q

\* C16 as amended: a merge is never rejected and never saturates; it leaves
\* the integer sum of the held and the inserted quantity when that sum fits
\* an int, the sum less 2^32 when it is above the greatest int, and the sum
\* plus 2^32 when it is below the least int.
C16_MergeWraps ==
    \A t \in Threads :
        (pc[t] = "ins_unlock"
         /\ HasCell(pre[t], arg[t].symbol, arg[t].order.price)) =>
            LET old == pre[t][arg[t].symbol][arg[t].order.price].lotSize
                new == map_[arg[t].symbol][arg[t].order.price].lotSize
                q   == arg[t].order.lotSize
            IN  CASE Carry(old, q) = 0  -> new = old + q
                  [] Carry(old, q) = 1  ->
                        new < 0 /\ (new + MaxInt) + 1 = ((old - MaxInt) - 1) + q
                  [] Carry(old, q) = -1 ->
                        new >= 0 /\ (new - MaxInt) - 1 = ((old + MaxInt) + 1) + q

\* A merge whose integer sum does not fit an int is about to return.
C16_Witness ==
    \E t \in Threads :
        /\ pc[t] = "ins_unlock"
        /\ HasCell(pre[t], arg[t].symbol, arg[t].order.price)
        /\ Carry(pre[t][arg[t].symbol][arg[t].order.price].lotSize,
                 arg[t].order.lotSize) # 0

\* ----------------------------------------------------------------- C19
\* C19 as stated: in every reachable state the price stored in each cell is
\* the key the cell is filed under.
C19_PriceIsKeyAlways ==
    \A s \in DOMAIN map_ : \A p \in DOMAIN map_[s] : map_[s][p].price = p

\* C19 as amended: the price stored in each cell is the key the cell is filed
\* under in every reachable state except between insert's default construction
\* of a new cell (price 0, quantity 0) and its move assignment, both inside
\* one exclusive lock hold, so in every state in which the lock is not held
\* exclusively; and a merge never changes the stored price.
C19_PriceIsKey ==
    /\ \A s \in DOMAIN map_ : \A p \in DOMAIN map_[s] :
          \/ map_[s][p].price = p
          \/ \E t \in Threads :
                /\ mutex_.writer = t
                /\ pc[t] = "ins_move"
                /\ arg[t].symbol = s
                /\ arg[t].order.price = p
                /\ map_[s][p] = DefaultOrder
    /\ \A t \in Threads :
          (pc[t] = "ins_unlock"
           /\ HasCell(pre[t], arg[t].symbol, arg[t].order.price)) =>
              map_[arg[t].symbol][arg[t].order.price].price
                  = pre[t][arg[t].symbol][arg[t].order.price].price

\* A new cell has been default-constructed under its key and not yet assigned.
C19_Witness ==
    \E t \in Threads :
        /\ pc[t] = "ins_move"
        /\ map_[arg[t].symbol][arg[t].order.price] = DefaultOrder
        /\ arg[t].order.price # 0

\* ----------------------------------------------------------------- C18
Quiescent == \A t \in Threads : pc[t] = "idle"

\* C18: with no operation in progress a cell (s, p) is present exactly when
\* an insert at (s, p) has completed since the last completed remove of s (or
\* since startup); and the only step that ever takes a cell away is the erase
\* of a remove of the cell's symbol.
C18_PresenceByHistory ==
    /\ [](Quiescent =>
            \A s \in Symbols, p \in Prices : HasCell(map_, s, p) <=> hist[s][p].n > 0)
    /\ [][\A s \in Symbols, p \in Prices :
            (HasCell(map_, s, p) /\ ~HasCell(map_', s, p)) =>
                \E t \in Threads :
                    /\ pc[t] = "rm_erase"
                    /\ pc'[t] = "rm_unlock"
                    /\ arg[t].symbol = s]_vars

\* No operation is in progress, one symbol has been erased and not inserted
\* again, and the other symbol holds a cell.
C18_Witness ==
    /\ Quiescent
    /\ erased # EmptyMap
    /\ map_ # EmptyMap

\* ----------------------------------------------------------------- C13
Pending == {t \in Threads : pc[t] # "idle"}

HoldsLock(t) == mutex_.writer = t \/ t \in mutex_.readers

\* C13: a call holds the lock exactly from its one acquisition to its return;
\* a pending call can always proceed itself or waits for a lock holder that
\* can proceed; and under fair scheduling every call waiting for the lock
\* acquires it and every pending call returns, leaving the lock released.
C13_DeadlockFreeAndComplete ==
    /\ [](\A t \in Threads :
            /\ HoldsLock(t) <=> pc[t] \in Holders \cup DisplayHolds
            /\ t \in Pending =>
                  \/ ENABLED Progress(t)
                  \/ \E u \in Threads \ {t} : HoldsLock(u) /\ ENABLED Progress(u))
    /\ \A t \in Threads :
          /\ (pc[t] \in {"ins_lock", "rm_lock", "dsp_lock"}) ~> HoldsLock(t)
          /\ (t \in Pending) ~> (pc[t] = "idle" /\ ~HoldsLock(t))

\* Every allowed call has been issued, an insert waits for the lock and a
\* display holds it shared.
C13_Witness ==
    \E t, u \in Threads :
        /\ calls = MaxCalls
        /\ pc[t] = "ins_lock"
        /\ ~ENABLED Progress(t)
        /\ pc[u] \in DisplayHolds

\* ----------------------------------------------------------------- C14
\* The racing insert holds the lock and the remove has not acquired it yet.
InsertFirst == pc[race.ins] \in InsertHolds /\ pc[race.rem] = "rm_lock"

\* The racing remove holds the lock and the insert has not acquired it yet.
RemoveFirst == pc[race.rem] \in RemoveHolds /\ pc[race.ins] = "ins_lock"

RaceAbsent == Entry(map_, race.symbol) = <<"absent">>

RaceSingle ==
    Entry(map_, race.symbol) = <<"present", Put(EmptyMap, race.order.price, race.order)>>

\* C14: when remove(s) and insert(s, q, p) race on a book where s holds
\* cells, then once both have returned s is absent if the insert acquired the
\* lock first, and s holds the single cell (p, q) if the remove acquired it
\* first; nothing else results, nothing s held before survives, and the
\* other symbols are as they were.
C14_RaceOutcome ==
    /\ [](InsertFirst => [](Quiescent => RaceAbsent))
    /\ [](RemoveFirst => [](Quiescent => RaceSingle))
    /\ [](Quiescent => RaceAbsent \/ RaceSingle)
    /\ [](\A o \in Symbols \ {race.symbol} : Entry(map_, o) = Entry(race.book, o))

\* Both calls have returned, the remove went first, and the inserted price is
\* one that s held before with another quantity.
C14_Witness ==
    /\ race # NoRace
    /\ Quiescent
    /\ RaceSingle
    /\ DOMAIN race.book[race.symbol] = Prices
    /\ race.book[race.symbol][race.order.price].lotSize # race.order.lotSize

\* ----------------------------------------------------------------- C17
\* C17: whatever public calls came before it (test() itself among them),
\* test() never fails one of its assertions.
C17_TestPasses == ~test.failed

\* test() has run to its end without a failed assertion, and has left the
\* cells of testDisplay and testConcurrentAccess in the book.
C17_TestPassed ==
    /\ test.pc = "idle"
    /\ ~test.failed
    /\ HasCell(map_, "TEST", 3)
    /\ HasCell(map_, "CONCURRENCY_TEST", 2)

\* test() called on the book a first test() left fails an assertion.
C17_SecondRunFails ==
    /\ test.failed
    /\ HasCell(map_, "CONCURRENCY_TEST", 2)

====
